---- MODULE Spec2Model ----
(***************************************************************************)
(* A model of noticer (src/lib.ts, src/bin/noticer.ts): the notice store,  *)
(* the per-machine seen.json, the `run` entry point of `show` with its     *)
(* first-run reconciliation, the embedded-command extraction and           *)
(* confirmation/execution flow of printNotices / printNotice, and the      *)
(* create and init commands.                                               *)
(*                                                                         *)
(* Spec         show and create in a repository with a few notices         *)
(* SpecThrow    the same with notice files that lack an author             *)
(* SpecSeq      show and create from a repository without seen.json        *)
(* SpecRepoRoot the same from any directory of a tree with any markers     *)
(* SpecExtract  printNotice on a notice of any content                     *)
(* SpecInit     init in a repository root with any package.json/.gitignore *)
(* SpecMark     calls of markNoticeAsSeen on any seen.json                 *)
(* SpecCli      run as the show command calls it                           *)
(* SpecKill     show with the process killed in a batch or a first run     *)
(* SpecRace     show processes side by side, read and write apart          *)
(* SpecPreview  create with its text prompt and live preview               *)
(* SpecLive     Spec with the steps of a run taken when they stay possible *)
(***************************************************************************)
EXTENDS Integers, Sequences, FiniteSets, TLC

\* ---------------------------------------------------------------- bounds
\* Largest number of notice files in the initial store.
MaxNotices == 2
\* Dates of the initial notices are drawn from 1..MaxDate.
MaxDate == 2
\* Largest value of the `number` option (0 stands for "not given").
MaxNumber == 2
\* Number of `run` invocations in one behaviour.
MaxRuns == 2
\* Number of `create` operations in one behaviour.
MaxCreates == 1
\* Depth of the deepest directory below '/'.
MaxDepth == 2
\* Lines and characters per line of the contents given to extractCommands.
MaxLines == 2
MaxLineLen == 4
\* Number of run invocations and of create operations in one behaviour
\* that starts without seen.json.
MaxRunsSeq == 2
MaxCreatesSeq == 2
\* Number of init commands in one behaviour.
MaxInits == 2
\* Number of direct markNoticeAsSeen calls in one behaviour.
MaxMarks == 3
\* Number of show processes started side by side.
MaxProcs == 3
\* Number of characters typed in the text prompt of create.
MaxTyped == 4

\* An id that is the stem of no notice file (a pruned notice's id).
OrphanId == 0

\* ------------------------------------------------------------ characters
WS == {" ", "\t"}

\* String.prototype.trim on a sequence of characters.
RECURSIVE TrimLeft(_)
TrimLeft(s) ==
  IF s = <<>> THEN s
  ELSE IF Head(s) \in WS THEN TrimLeft(Tail(s)) ELSE s

RECURSIVE TrimRight(_)
TrimRight(s) ==
  IF s = <<>> THEN s
  ELSE IF s[Len(s)] \in WS THEN TrimRight(SubSeq(s, 1, Len(s) - 1)) ELSE s

Trim(s) == TrimRight(TrimLeft(s))

\* String.prototype.split('\n'): always at least one (possibly empty) line.
RECURSIVE SplitFrom(_, _, _)
SplitFrom(s, i, cur) ==
  IF i > Len(s) THEN <<cur>>
  ELSE IF s[i] = "\n" THEN <<cur>> \o SplitFrom(s, i + 1, <<>>)
  ELSE SplitFrom(s, i + 1, Append(cur, s[i]))

SplitLines(s) == SplitFrom(s, 1, <<>>)

\* String.prototype.includes('!>')
IncludesMarker(t) ==
  \E i \in 1..(Len(t) - 1) : t[i] = "!" /\ t[i + 1] = ">"

\* String.prototype.startsWith('!>')
StartsWithMarker(t) == Len(t) >= 2 /\ t[1] = "!" /\ t[2] = ">"

\* The body of the for loop of extractCommands, for one line.
CommandsOfLine(line) ==
  LET trimmed == Trim(line)
  IN  IF StartsWithMarker(trimmed)
      THEN LET command == Trim(SubSeq(trimmed, 3, Len(trimmed)))
           IN  IF command # <<>> THEN <<command>> ELSE <<>>
      ELSE <<>>

RECURSIVE CommandsOfLines(_)
CommandsOfLines(lines) ==
  IF lines = <<>> THEN <<>>
  ELSE CommandsOfLine(Head(lines)) \o CommandsOfLines(Tail(lines))

extractCommands(content) == CommandsOfLines(SplitLines(content))

\* Contents of the notices of the model: one without a command, and one
\* with two commands among lines that are not commands.
ContentPlain == <<"h", "i">>
ContentTwo == <<"!", ">", " ", "a", " ", "\n", "!", "x", "\n", "!", ">", " ",
                "\n", "x", "!", ">", "b", "\n", " ", "!", ">", "b">>
ContentPool == {ContentPlain, ContentTwo}

\* ----------------------------------------------------------------- state
VARIABLES
  notices,      \* the files of .noticer/notices, in readdir order
  seenFile,     \* .noticer/seen.json: [exists, parses, map]
  now,          \* the clock, in seconds
  pc,           \* position of the process: idle, printNotice, command,
                \*   prompting, done; typing in the text prompt of create
  number,       \* options.number of the running invocation (0: not given)
  autoExecute,  \* options.autoExecute of the running invocation
  stdinIsTTY,   \* process.stdin.isTTY
  devTty,       \* getTTYStream's openSync('/dev/tty') succeeded
  repoRoot,     \* the directory getRepoRoot returned, as its depth below '/',
                \*   -1 when it threw
  toShow,       \* the notices handed to printNotices
  ni,           \* index in toShow of the notice being printed
  cmds,         \* extractCommands of the notice being printed
  ci,           \* index in cmds of the command being resolved
  ttyStream,    \* printNotices' ttyStream is an open /dev/tty stream
  inputStream,  \* printNotices' inputStream: "tty", "stdin" or "none"
  displayed,    \* ids of the notices printed by this invocation, in order
  events,       \* what happened to the commands of the notice being printed
  lastAnswer,   \* the answer the step just taken got from the prompt, or "-"
  anyFailed,    \* a command of this invocation ended with "Command failed"
  cancelled,    \* a prompt of this invocation was cancelled
  caught,       \* the error run's catch block swallowed, "none" if none
  seenAtStart,  \* seen.json when the invocation started
  firstRun,     \* seen.json was absent when the invocation started
  prevShown,    \* when the operation before this invocation was a run
                \*   without number on this store: how many notices it
                \*   printed; -1 otherwise
  runs,         \* run invocations so far
  creates,      \* create operations so far
  cwd,          \* process.cwd(), as its depth below '/'
  markers,      \* the directories (depths) that hold .git or .jj
  ttyFds,       \* /dev/tty descriptors the process has open
  wrote,        \* this invocation wrote a line to the terminal
  lockFiles,    \* the lock files in the repository root
  packageJson,  \* package.json: [exists, parses, postinstall]
  gitignore,    \* .gitignore: [exists, text]
  initLog,      \* <<packageJson, gitignore>> at the start and after each
                \*   init so far
  cliNumber,    \* the -n value of the show command that called run (0: show
                \*   without -n); -1 when run was not called by show
  markCalls,    \* the ids of the direct calls of markNoticeAsSeen so far
  procs,        \* the show processes started side by side of one another,
                \*   in the order of their start: for each its position, its
                \*   number, the ids of its batch, the index of the id it
                \*   marks, the map it read, the ids it has written
  killed        \* the show process that was killed last: where it was
                \*   killed, which run it was, its number, the ids it had
                \*   displayed, and how many of the older notices
                \*   handleFirstRun had marked

\* What the show and create commands never touch.
initFiles == <<lockFiles, packageJson, gitignore, initLog>>
\* The directory tree around the process.
env == <<cwd, markers>>
\* What a run of the process above never touches.
others == <<markCalls, procs, killed>>

vars == <<notices, seenFile, now, pc, number, autoExecute, stdinIsTTY,
          devTty, repoRoot, toShow, ni, cmds, ci, ttyStream,
          inputStream, displayed, events, lastAnswer, anyFailed, cancelled,
          caught, seenAtStart, firstRun, prevShown, runs, creates, cwd, markers,
          ttyFds, wrote, lockFiles, packageJson, gitignore, initLog,
          cliNumber, markCalls, procs, killed>>

\* ------------------------------------------------------------- seen.json
EmptyMap == [i \in {} |-> TRUE]
AbsentFile == [exists |-> FALSE, parses |-> FALSE, map |-> EmptyMap]
CorruptFile == [exists |-> TRUE, parses |-> FALSE, map |-> EmptyMap]
FileOf(m) == [exists |-> TRUE, parses |-> TRUE, map |-> m]

\* getSeenNotices: {} when the file is missing, the parsed file otherwise;
\* readJsonSync throws on a file that does not parse.
getSeenNotices(file) ==
  IF ~file.exists THEN [threw |-> FALSE, map |-> EmptyMap]
  ELSE IF ~file.parses THEN [threw |-> TRUE, map |-> EmptyMap]
  ELSE [threw |-> FALSE, map |-> file.map]

\* saveSeenNotices: writeJsonSync of the whole map.
saveSeenNotices(m) == FileOf(m)

\* The assignment as a fresh map { [noticeId]: true }.
SetSeenOnly(m, id) == [i \in {id} |-> TRUE]

\* The assignment as a toggle of the entry.
SetSeenToggle(m, id) ==
  [i \in (DOMAIN m) \cup {id} |->
     IF i = id THEN ~(id \in DOMAIN m /\ m[id]) ELSE m[i]]

\* seenNotices[noticeId] = true
SetSeen(m, id) == [i \in (DOMAIN m) \cup {id} |-> IF i = id THEN TRUE ELSE m[i]]

\* markNoticeAsSeen without its saveSeenNotices call.
markNoticeAsSeenNoSave(file, id) ==
  LET r == getSeenNotices(file)
  IN  [threw |-> r.threw, file |-> file]

\* markNoticeAsSeen: read, set, rewrite.  [threw, file]
markNoticeAsSeen(file, id) ==
  LET r == getSeenNotices(file)
  IN  IF r.threw THEN [threw |-> TRUE, file |-> file]
      ELSE [threw |-> FALSE, file |-> saveSeenNotices(SetSeen(r.map, id))]

\* for (const notice of list) markNoticeAsSeen(repoRoot, notice.id)
RECURSIVE MarkAll(_, _)
MarkAll(file, list) ==
  IF list = <<>> THEN [threw |-> FALSE, file |-> file]
  ELSE LET r == markNoticeAsSeen(file, Head(list).id)
       IN  IF r.threw THEN r ELSE MarkAll(r.file, Tail(list))

\* The truthiness test seenNotices[notice.id] of getUnseenNotices.
IsSeenIn(m, id) == id \in DOMAIN m /\ m[id]

\* --------------------------------------------------------------- notices
\* getNotices: the notice files in readdir order.
getNotices(store) == store

\* Array.prototype.sort is stable: insert x behind every element the
\* comparator (b.date - a.date) does not put after it.
\* An unstable sort: x goes before the elements of its own date.
RECURSIVE InsertByDateUnstable(_, _)
InsertByDateUnstable(sorted, x) ==
  IF sorted = <<>> THEN <<x>>
  ELSE IF Head(sorted).date > x.date
       THEN <<Head(sorted)>> \o InsertByDateUnstable(Tail(sorted), x)
       ELSE <<x>> \o sorted

RECURSIVE InsertByDate(_, _)
InsertByDate(sorted, x) ==
  IF sorted = <<>> THEN <<x>>
  ELSE IF Head(sorted).date >= x.date
       THEN <<Head(sorted)>> \o InsertByDate(Tail(sorted), x)
       ELSE <<x>> \o sorted

RECURSIVE SortByDateDesc(_)
SortByDateDesc(s) ==
  IF s = <<>> THEN <<>>
  ELSE InsertByDate(SortByDateDesc(SubSeq(s, 1, Len(s) - 1)), s[Len(s)])

\* The sort with its comparator turned round (a.date - b.date).
getSortedNoticesAscending(store) ==
  LET d == SortByDateDesc(getNotices(store))
  IN  [i \in 1..Len(d) |-> d[Len(d) + 1 - i]]

getSortedNotices(store) == SortByDateDesc(getNotices(store))

\* Array.prototype.slice(from) and slice(0, to) for to >= 0
SliceFrom(s, from) == SubSeq(s, from + 1, Len(s))
SliceTo(s, to) == SubSeq(s, 1, IF to < Len(s) THEN to ELSE Len(s))

\* getUnseenNotices without its filter.
UnseenFilterNone(store, m) == getNotices(store)

\* getUnseenNotices, given the parsed map.
UnseenFilter(store, m) ==
  SelectSeq(getNotices(store), LAMBDA notice : ~IsSeenIn(m, notice.id))

\* getUnseenNotices: [threw, list]
getUnseenNotices(store, file) ==
  LET r == getSeenNotices(file)
  IN  IF r.threw THEN [threw |-> TRUE, list |-> <<>>]
      ELSE [threw |-> FALSE, list |-> UnseenFilter(store, r.map)]

\* handleFirstRun without its test for a missing seen.json.
handleFirstRunAlways(store, file) ==
  MarkAll(file, SliceFrom(getSortedNotices(store), 1)).file

\* handleFirstRun: the seen.json it leaves.
handleFirstRun(store, file) ==
  IF ~file.exists
  THEN MarkAll(file, SliceFrom(getSortedNotices(store), 1)).file
  ELSE file

\* ------------------------------------------------------------ repository
\* getRepoRoot: from the current directory (its depth) upwards while the
\* directory is not '/', the first directory that holds .git or .jj;
\* -1 when the loop ends and the function throws.
RECURSIVE getRepoRoot(_, _)
getRepoRoot(currentDir, marked) ==
  IF currentDir = 0 THEN -1
  ELSE IF currentDir \in marked THEN currentDir
  ELSE getRepoRoot(currentDir - 1, marked)

\* getTTYStream without its test of process.stdin.isTTY.
getTTYStreamNoTest(isTTY, devTtyOpens) == devTtyOpens

\* getTTYStream: an open /dev/tty stream was returned.
getTTYStream(isTTY, devTtyOpens) ==
  IF isTTY THEN FALSE
  ELSE devTtyOpens

\* ------------------------------------------------------------------ Init
\* The stores of n notice files: ids 1..n in readdir order, any dates, any
\* contents of the pool.
NoticeSeqs(n) ==
  IF n = 0 THEN {<<>>}
  ELSE { [i \in 1..n |-> [id |-> i, date |-> d[i], author |-> TRUE,
                          content |-> c[i]]] :
           d \in [1..n -> 1..MaxDate], c \in [1..n -> ContentPool] }

\* The seen.json files: missing, unparseable, or a map to true of some
\* of the ids 1..n and the orphan id.
SeenFiles(n) ==
  {AbsentFile, CorruptFile}
    \cup { FileOf([i \in S |-> TRUE]) : S \in SUBSET ((1..n) \cup {OrphanId}) }

\* A repository root without package.json and .gitignore.
NoPackageJson ==
  [exists |-> FALSE, parses |-> FALSE, has |-> FALSE, postinstall |-> <<>>,
   layout |-> "original"]
NoGitignore == [exists |-> FALSE, text |-> <<>>]

\* No show process was killed.
NotKilled ==
  [at |-> "-", run |-> 0, number |-> 0, ids |-> <<>>, marked |-> 0,
   older |-> 0]

\* A process that has run no command yet.
ProcessStart ==
  /\ pc = "idle"
  /\ number = 0
  /\ autoExecute = FALSE
  /\ stdinIsTTY = FALSE
  /\ devTty = FALSE
  /\ repoRoot = -1
  /\ toShow = <<>>
  /\ ni = 0
  /\ cmds = <<>>
  /\ ci = 0
  /\ ttyStream = FALSE
  /\ inputStream = "none"
  /\ displayed = <<>>
  /\ events = <<>>
  /\ lastAnswer = "-"
  /\ anyFailed = FALSE
  /\ cancelled = FALSE
  /\ caught = "none"
  /\ seenAtStart = seenFile
  /\ firstRun = FALSE
  /\ prevShown = -1
  /\ runs = 0
  /\ creates = 0
  /\ ttyFds = 0
  /\ wrote = FALSE
  /\ cliNumber = -1
  /\ markCalls = <<>>
  /\ procs = <<>>
  /\ killed = NotKilled

\* The process is started in a subdirectory of a repository that holds
\* up to MaxNotices notices and any seen.json.
Init ==
  /\ \E n \in 0..MaxNotices :
       /\ notices \in NoticeSeqs(n)
       /\ seenFile \in SeenFiles(n)
       /\ now = n
  /\ cwd = MaxDepth
  /\ markers = {1}
  /\ lockFiles = {}
  /\ packageJson = NoPackageJson
  /\ gitignore = NoGitignore
  /\ initLog = <<>>
  /\ ProcessStart

\* --------------------------------------------------------------- actions
Event(type, cmd, via) == [type |-> type, cmd |-> cmd, via |-> via]

\* executeCommand: the "Executing:" line, execSync, and the "Command
\* failed:" line of the catch block when execSync throws.
executeCommand(log, cmd, exit) ==
  IF exit = 0
  THEN Append(log, Event("executing", cmd, "-"))
  ELSE Append(Append(log, Event("executing", cmd, "-")),
              Event("failed", cmd, "-"))

\* run returns: seen.json and the error its catch block swallowed stay,
\* the locals of run, printNotices and printNotice are gone.
RunEnds(file, err) ==
  /\ seenFile' = file
  /\ caught' = err
  /\ pc' = "done"
  /\ autoExecute' = FALSE
  /\ stdinIsTTY' = FALSE
  /\ devTty' = FALSE
  /\ toShow' = <<>>
  /\ ni' = 0
  /\ cmds' = <<>>
  /\ ci' = 0
  /\ events' = <<>>
  /\ lastAnswer' = "-"
  /\ ttyStream' = FALSE
  /\ inputStream' = "none"

\* printNotices without its test for an empty list.
printNoticesNoEmptyTest(list) == FALSE

\* printNotices returns at once for an empty list.
printNoticesReturnsAtOnce(list) == Len(list) = 0

\* run, from its call to the first notice of printNotices: getRepoRoot,
\* handleFirstRun, the list of the branch taken, and printNotices up to
\* the first line of its try block.
RunStart(num, auto, isTTY, tty) ==
  /\ pc \in {"idle", "done"}
  /\ runs' = runs + 1
  /\ number' = num
  /\ seenAtStart' = seenFile
  /\ firstRun' = ~seenFile.exists
  /\ prevShown' = IF pc = "done" /\ number = 0 /\ repoRoot # -1
                  THEN Len(displayed) ELSE -1
  /\ displayed' = <<>>
  /\ anyFailed' = FALSE
  /\ cancelled' = FALSE
  /\ repoRoot' = getRepoRoot(cwd, markers)
  /\ IF repoRoot' = -1
     THEN RunEnds(seenFile, "norepo") /\ UNCHANGED <<ttyFds>> /\ wrote' = FALSE
     ELSE LET file == handleFirstRun(notices, seenFile)
              unseen == getUnseenNotices(notices, file)
              list == IF num # 0
                      THEN SliceTo(getSortedNotices(notices), num)
                      ELSE unseen.list
          IN  IF num = 0 /\ unseen.threw
              THEN RunEnds(file, "seen") /\ UNCHANGED <<ttyFds>> /\ wrote' = FALSE
              ELSE IF printNoticesReturnsAtOnce(list)
              THEN RunEnds(file, "none") /\ UNCHANGED <<ttyFds>> /\ wrote' = FALSE
              ELSE /\ seenFile' = file
                   /\ caught' = "none"
                   /\ autoExecute' = auto
                   /\ stdinIsTTY' = isTTY
                   /\ devTty' = (~auto /\ ~isTTY /\ tty)
                   /\ toShow' = list
                   /\ ni' = 1
                   /\ cmds' = <<>>
                   /\ ci' = 0
                   /\ events' = <<>>
                   /\ lastAnswer' = "-"
                   /\ ttyStream' = (~auto /\ getTTYStream(isTTY, tty))
                   /\ inputStream' = IF ttyStream' THEN "tty"
                                     ELSE IF isTTY THEN "stdin" ELSE "none"
                   /\ ttyFds' = IF ttyStream' THEN ttyFds + 1 ELSE ttyFds
                   /\ wrote' = TRUE
                   /\ pc' = "printNotice"
  /\ UNCHANGED <<notices, now, creates, env, initFiles, others>>

\* run called with an options object, as the library exports it.
Run(num, auto, isTTY, tty) ==
  /\ RunStart(num, auto, isTTY, tty)
  /\ cliNumber' = -1

\* printNotice up to its loop over the commands: the notice is written to
\* the terminal and its commands are extracted.
PrintNoticeWith(commands) ==
  /\ pc = "printNotice"
  /\ ni <= Len(toShow)
  /\ toShow[ni].author
  /\ displayed' = Append(displayed, toShow[ni].id)
  /\ cmds' = commands
  /\ ci' = 1
  /\ events' = <<>>
  /\ lastAnswer' = "-"
  /\ pc' = "command"
  /\ UNCHANGED <<notices, seenFile, now, number, autoExecute, stdinIsTTY,
                 devTty, repoRoot, toShow, ni, ttyStream,
                 inputStream, anyFailed, cancelled, caught, seenAtStart, firstRun,
                 prevShown, runs, creates, env, ttyFds, wrote, initFiles, cliNumber, others>>

PrintNotice == PrintNoticeWith(extractCommands(toShow[ni].content))

CommandFrame ==
  UNCHANGED <<notices, seenFile, now, number, autoExecute, stdinIsTTY,
              devTty, repoRoot, toShow, ni, cmds, ttyStream,
              inputStream, displayed, caught, seenAtStart, firstRun,
              prevShown, runs, creates, env, ttyFds, wrote, initFiles, cliNumber, others>>

\* executeCommand letting the error of execSync leave the loop over the
\* commands of the notice.
AutoExecuteAbort(exit) ==
  /\ pc = "command"
  /\ ci <= Len(cmds)
  /\ autoExecute
  /\ events' = executeCommand(events, cmds[ci], exit)
  /\ anyFailed' = (anyFailed \/ exit # 0)
  /\ UNCHANGED cancelled
  /\ lastAnswer' = "-"
  /\ ci' = IF exit # 0 THEN Len(cmds) + 1 ELSE ci + 1
  /\ pc' = "command"
  /\ CommandFrame

\* promptAndExecuteCommand with autoExecute: executeCommand and return.
AutoExecute(exit) ==
  /\ pc = "command"
  /\ ci <= Len(cmds)
  /\ autoExecute
  /\ events' = executeCommand(events, cmds[ci], exit)
  /\ anyFailed' = (anyFailed \/ exit # 0)
  /\ UNCHANGED cancelled
  /\ lastAnswer' = "-"
  /\ ci' = ci + 1
  /\ pc' = "command"
  /\ CommandFrame

\* The fallback to process.stdin without its isTTY test.
PromptStreamAnyStdin ==
  IF inputStream # "none" THEN inputStream ELSE "stdin"

\* The stream promptAndExecuteCommand prompts on:
\* inputStream ?? (process.stdin.isTTY ? process.stdin : null)
PromptStream ==
  IF inputStream # "none" THEN inputStream
  ELSE IF stdinIsTTY THEN "stdin" ELSE "none"

\* promptAndExecuteCommand without a terminal: return.
SkipNoTerminal ==
  /\ pc = "command"
  /\ ci <= Len(cmds)
  /\ ~autoExecute
  /\ PromptStream = "none"
  /\ events' = Append(events, Event("skipped", cmds[ci], "-"))
  /\ lastAnswer' = "-"
  /\ ci' = ci + 1
  /\ pc' = "command"
  /\ UNCHANGED <<anyFailed, cancelled>>
  /\ CommandFrame

\* promptAndExecuteCommand: the confirm prompt is shown and awaited.
Prompt ==
  /\ pc = "command"
  /\ ci <= Len(cmds)
  /\ ~autoExecute
  /\ PromptStream # "none"
  /\ events' = Append(events, Event("prompt", cmds[ci], PromptStream))
  /\ lastAnswer' = "-"
  /\ UNCHANGED <<anyFailed, cancelled>>
  /\ ci' = ci
  /\ pc' = "prompting"
  /\ CommandFrame

\* The ways the awaited prompt ends: response.execute is true ("yes"),
\* false ("no", or "default" for the initial value), undefined when the
\* prompt was cancelled ("cancel"), or the promise rejects ("throw").
Answers == {"yes", "no", "default", "cancel", "throw"}

\* if (response.execute !== false)
ResponseExecuteNotFalse(answer) == answer \notin {"no", "default"}

\* if (response.execute)
ResponseExecute(answer) == answer = "yes"

\* promptAndExecuteCommand from the answer to its return.
Answer(answer, exit) ==
  /\ pc = "prompting"
  /\ lastAnswer' = answer
  /\ events' = IF ResponseExecute(answer)
               THEN executeCommand(events, cmds[ci], exit)
               ELSE Append(events, Event("skipped", cmds[ci], "-"))
  /\ anyFailed' = (anyFailed \/ (ResponseExecute(answer) /\ exit # 0))
  /\ cancelled' = (cancelled \/ answer = "cancel")
  /\ ci' = ci + 1
  /\ pc' = "command"
  /\ CommandFrame

\* The loop over the commands without its await: the next notice is
\* printed while commands of this one are not resolved.
NextNoticeNoAwait ==
  /\ pc = "command"
  /\ ci >= 1
  /\ ni' = ni + 1
  /\ cmds' = <<>>
  /\ ci' = 0
  /\ events' = <<>>
  /\ lastAnswer' = "-"
  /\ pc' = "printNotice"
  /\ UNCHANGED <<notices, seenFile, now, number, autoExecute, stdinIsTTY,
                 devTty, repoRoot, toShow, ttyStream,
                 inputStream, displayed, anyFailed, cancelled, caught,
                 seenAtStart, firstRun, prevShown, runs, creates, env,
                 ttyFds, wrote, initFiles, cliNumber, others>>

\* The loop over the notices marking each notice as seen behind its
\* last command.
NextNoticeMarks ==
  /\ pc = "command"
  /\ ci > Len(cmds)
  /\ ni' = ni + 1
  /\ cmds' = <<>>
  /\ ci' = 0
  /\ events' = <<>>
  /\ lastAnswer' = "-"
  /\ pc' = "printNotice"
  /\ seenFile' = markNoticeAsSeen(seenFile, toShow[ni].id).file
  /\ UNCHANGED <<notices, now, number, autoExecute, stdinIsTTY,
                 devTty, repoRoot, toShow, ttyStream,
                 inputStream, displayed, anyFailed, cancelled, caught,
                 seenAtStart, firstRun, prevShown, runs, creates, env,
                 ttyFds, wrote, initFiles, cliNumber, others>>

\* The loop over the commands of printNotice ends: the next notice.
NextNotice ==
  /\ pc = "command"
  /\ ci > Len(cmds)
  /\ ni' = ni + 1
  /\ cmds' = <<>>
  /\ ci' = 0
  /\ events' = <<>>
  /\ lastAnswer' = "-"
  /\ pc' = "printNotice"
  /\ UNCHANGED <<notices, seenFile, now, number, autoExecute, stdinIsTTY,
                 devTty, repoRoot, toShow, ttyStream,
                 inputStream, displayed, anyFailed, cancelled, caught,
                 seenAtStart, firstRun, prevShown, runs, creates, env,
                 ttyFds, wrote, initFiles, cliNumber, others>>

\* printNotices' finally block without its close.
FinallyNoClose(fds, stream) == fds

\* printNotices' finally block: if (ttyStream) ttyStream.close().
\* The descriptors left open.
Finally(fds, stream) == IF stream THEN fds - 1 ELSE fds

\* printNotices' loop ends: its finally block closes the tty stream, and
\* run marks every notice of the batch as seen; an error of
\* markNoticeAsSeen ends the loop in run's catch block.
Finish ==
  /\ pc = "printNotice"
  /\ ni > Len(toShow)
  /\ ttyFds' = Finally(ttyFds, ttyStream)
  /\ LET r == MarkAll(seenFile, toShow)
     IN  RunEnds(r.file, IF r.threw THEN "seen" ELSE "none")
  /\ UNCHANGED <<notices, now, number, repoRoot, displayed,
                 anyFailed, cancelled, seenAtStart, firstRun, prevShown, runs,
                 creates, env, wrote, initFiles, cliNumber, others>>

\* printNotice on a notice file without an author: notice.author.length
\* throws before a line of the notice is written; the error leaves
\* printNotices through its finally block and ends in run's catch block.
PrintNoticeThrows ==
  /\ pc = "printNotice"
  /\ ni <= Len(toShow)
  /\ ~toShow[ni].author
  /\ ttyFds' = Finally(ttyFds, ttyStream)
  /\ RunEnds(seenFile, "print")
  /\ UNCHANGED <<notices, now, number, repoRoot, displayed,
                 anyFailed, cancelled, seenAtStart, firstRun, prevShown, runs,
                 creates, env, wrote, initFiles, cliNumber, others>>

\* writeJsonSync(path.join(noticesDir, `${id}.json`), notice): a new file,
\* or the file of that name rewritten.
WriteNotice(store, notice) ==
  IF \E i \in 1..Len(store) : store[i].id = notice.id
  THEN [i \in 1..Len(store) |->
          IF store[i].id = notice.id THEN notice ELSE store[i]]
  ELSE Append(store, notice)

\* createNoticeFile: the id is the clock's second, the date the clock.
createNoticeFile(store, content, t) ==
  WriteNotice(store, [id |-> t, date |-> t, author |-> TRUE,
                      content |-> content])

\* The create command with its content given, at a time t of the clock.
Create(content, t) ==
  /\ pc \in {"idle", "done"}
  /\ getRepoRoot(cwd, markers) # -1
  /\ t >= 1
  /\ creates' = creates + 1
  /\ now' = t
  /\ notices' = createNoticeFile(notices, content, t)
  /\ pc' = "idle"
  /\ UNCHANGED <<seenFile, number, autoExecute, stdinIsTTY, devTty,
                 repoRoot, toShow, ni, cmds, ci, ttyStream, inputStream,
                 displayed, events, lastAnswer, anyFailed, cancelled, caught,
                 seenAtStart, firstRun, prevShown, runs, env, ttyFds, wrote,
                 initFiles, cliNumber, others>>

\* The steps of a run between its start and its return.
RunStep ==
  \/ PrintNotice
  \/ \E exit \in {0, 1} : AutoExecute(exit)
  \/ SkipNoTerminal
  \/ Prompt
  \/ \E answer \in Answers, exit \in {0, 1} : Answer(answer, exit)
  \/ NextNotice
  \/ Finish

Next ==
  \/ \E num \in 0..MaxNumber, auto \in BOOLEAN, isTTY \in BOOLEAN,
        tty \in BOOLEAN :
       runs < MaxRuns /\ Run(num, auto, isTTY, tty)
  \/ RunStep
  \/ \E content \in ContentPool, t \in {now, now + 1} :
       creates < MaxCreates /\ Create(content, t)

Spec == Init /\ [][Next]_vars

\* ------------------------------------------- notice files without author
\* getNotices reads whatever JSON the files hold: the stores of n notice
\* files some of which have no author field.
NoticeSeqsAnyAuthor(n) ==
  { [i \in 1..n |-> [id |-> i, date |-> i, author |-> a[i],
                     content |-> c[i]]] :
      a \in [1..n -> BOOLEAN], c \in [1..n -> ContentPool] }

InitThrow ==
  /\ \E n \in 1..MaxNotices :
       /\ notices \in NoticeSeqsAnyAuthor(n)
       /\ seenFile \in {AbsentFile, CorruptFile, FileOf(EmptyMap)}
       /\ now = n
  /\ cwd = MaxDepth
  /\ markers = {1}
  /\ lockFiles = {}
  /\ packageJson = NoPackageJson
  /\ gitignore = NoGitignore
  /\ initLog = <<>>
  /\ ProcessStart

NextThrow ==
  \/ Next
  \/ PrintNoticeThrows

SpecThrow == InitThrow /\ [][NextThrow]_vars

\* ------------------------------------------ extractCommands on any text
\* The characters of the lines: marker characters, blank, other text.
Chars == {"!", ">", " ", "a"}

\* The lines of at most n characters.
RECURSIVE LinesUpTo(_)
LinesUpTo(n) ==
  IF n = 0 THEN {<<>>}
  ELSE LinesUpTo(n - 1)
         \cup {Append(l, ch) : l \in {x \in LinesUpTo(n - 1) : Len(x) = n - 1},
                               ch \in Chars}

\* The contents of 1..n lines, joined by '\n'.
RECURSIVE ContentsUpTo(_)
ContentsUpTo(n) ==
  IF n = 1 THEN LinesUpTo(MaxLineLen)
  ELSE ContentsUpTo(n - 1)
         \cup {c \o <<"\n">> \o l : c \in ContentsUpTo(n - 1),
                                     l \in LinesUpTo(MaxLineLen)}

\* printNotices is about to print the one notice of the store, of any
\* content; the terminal is stdin.
InitExtract ==
  /\ \E c \in ContentsUpTo(MaxLines) :
       notices = <<[id |-> 1, date |-> 1, author |-> TRUE, content |-> c]>>
  /\ seenFile = FileOf(EmptyMap)
  /\ now = 1
  /\ pc = "printNotice"
  /\ number = 0
  /\ autoExecute = FALSE
  /\ stdinIsTTY = TRUE
  /\ devTty = FALSE
  /\ repoRoot = 1
  /\ toShow = notices
  /\ ni = 1
  /\ cmds = <<>>
  /\ ci = 0
  /\ ttyStream = FALSE
  /\ inputStream = "stdin"
  /\ displayed = <<>>
  /\ events = <<>>
  /\ lastAnswer = "-"
  /\ anyFailed = FALSE
  /\ cancelled = FALSE
  /\ caught = "none"
  /\ seenAtStart = seenFile
  /\ firstRun = FALSE
  /\ prevShown = -1
  /\ runs = 1
  /\ creates = 0
  /\ ttyFds = 0
  /\ wrote = TRUE
  /\ cliNumber = -1
  /\ markCalls = <<>>
  /\ procs = <<>>
  /\ killed = NotKilled
  /\ cwd = MaxDepth
  /\ markers = {1}
  /\ lockFiles = {}
  /\ packageJson = NoPackageJson
  /\ gitignore = NoGitignore
  /\ initLog = <<>>

NextExtract == PrintNotice

SpecExtract == InitExtract /\ [][NextExtract]_vars

\* ----------------------------------------- a repository before its first show
\* No seen.json yet, and at most one notice in the store.
InitSeq ==
  /\ \E n \in 0..1 :
       /\ notices \in NoticeSeqs(n)
       /\ now = n
  /\ seenFile = AbsentFile
  /\ cwd = MaxDepth
  /\ markers = {1}
  /\ lockFiles = {}
  /\ packageJson = NoPackageJson
  /\ gitignore = NoGitignore
  /\ initLog = <<>>
  /\ ProcessStart

NextSeq ==
  \/ \E num \in 0..MaxNumber, auto \in BOOLEAN, isTTY \in BOOLEAN,
        tty \in BOOLEAN :
       runs < MaxRunsSeq /\ Run(num, auto, isTTY, tty)
  \/ RunStep
  \/ \E content \in ContentPool, t \in {now, now + 1} :
       creates < MaxCreatesSeq /\ Create(content, t)

SpecSeq == InitSeq /\ [][NextSeq]_vars

\* --------------------------------------------- any directory, any markers
\* The process is started in any directory of a tree whose directories
\* hold .git or .jj or not; the store of a root found holds at most one
\* notice.
InitRepoRoot ==
  /\ cwd \in 0..MaxDepth
  /\ markers \in SUBSET (0..MaxDepth)
  /\ \E n \in 0..1 :
       /\ notices \in NoticeSeqs(n)
       /\ seenFile \in SeenFiles(n)
       /\ now = n
  /\ lockFiles = {}
  /\ packageJson = NoPackageJson
  /\ gitignore = NoGitignore
  /\ initLog = <<>>
  /\ ProcessStart

SpecRepoRoot == InitRepoRoot /\ [][Next]_vars

\* ------------------------------------------------------------------ init
\* 'bun'
Bun ==
  <<"b", "u", "n">>
\* 'pnpm'
Pnpm ==
  <<"p", "n", "p", "m">>
\* 'yarn'
Yarn ==
  <<"y", "a", "r", "n">>
\* 'npm'
Npm ==
  <<"n", "p", "m">>
\* ' noticer show'
NoticerShow ==
  <<" ", "n", "o", "t", "i", "c", "e", "r", " ", "s", "h", "o", "w">>

\* ' && '
AndAnd ==
  <<" ", "&", "&", " ">>

\* '.noticer/seen.json'
SeenJsonEntry ==
  <<".", "n", "o", "t", "i", "c", "e", "r", "/", "s", "e", "e", "n", ".",
    "j", "s", "o", "n">>

\* The first line init appends to .gitignore.
IgnoreComment ==
  <<"\n", "#", " ", "@", "m", "e", "e", "t", "s", "m", "o", "r", "e",
    "/", "n", "o", "t", "i", "c", "e", "r", ",", " ", "r", "e", "c", "o",
    "r", "d", " ", "o", "f", " ", "n", "o", "t", "i", "c", "e", "s", " ",
    "s", "e", "e", "n", " ", "b", "y", " ", "y", "o", "u", ".">>

\* The second line init appends to .gitignore.
IgnoreLine ==
  <<"\n", ".", "n", "o", "t", "i", "c", "e", "r", "/", "s", "e", "e",
    "n", ".", "j", "s", "o", "n", "\n">>

\* A postinstall script of the repository's own.
OtherScript ==
  <<"t", "s", "c">>

\* A .gitignore of the repository's own.
OtherIgnore ==
  <<"d", "i", "s", "t", "\n">>

\* String.prototype.includes
Includes(text, part) ==
  \E i \in 1..(Len(text) - Len(part) + 1) :
    SubSeq(text, i, i + Len(part) - 1) = part

LockFileNames == {"bun.lockb", "bun.lock", "pnpm-lock.yaml", "yarn.lock"}

\* detectPackageManager: the lock files in order of preference.
detectPackageManager(locks) ==
  IF "bun.lockb" \in locks \/ "bun.lock" \in locks THEN Bun
  ELSE IF "pnpm-lock.yaml" \in locks THEN Pnpm
  ELSE IF "yarn.lock" \in locks THEN Yarn
  ELSE Npm

\* `${packageManager} noticer show`
noticerCommand(locks) == detectPackageManager(locks) \o NoticerShow

\* The test of the postinstall script taken as never true.
PostinstallNeverIncludes(pkg, command) == FALSE

\* pkg.scripts.postinstall?.includes(noticerCommand)
PostinstallIncludes(pkg, command) ==
  pkg.has /\ Includes(pkg.postinstall, command)

\* A package.json that parses: has says whether scripts.postinstall is
\* defined, layout whether the file is as its author wrote it or as
\* writeJsonSync formats it.
PackageJson(has, postinstall, layout) ==
  [exists |-> TRUE, parses |-> TRUE, has |-> has,
   postinstall |-> postinstall, layout |-> layout]

\* The package.json part of init: [threw, pkg]
initPackageJson(pkg, locks) ==
  IF ~pkg.exists \/ ~pkg.parses THEN [threw |-> TRUE, pkg |-> pkg]
  ELSE IF PostinstallIncludes(pkg, noticerCommand(locks))
  THEN [threw |-> FALSE, pkg |-> pkg]
  ELSE [threw |-> FALSE,
        pkg |-> PackageJson(TRUE,
                  IF pkg.has /\ pkg.postinstall # <<>>
                  THEN pkg.postinstall \o AndAnd \o noticerCommand(locks)
                  ELSE noticerCommand(locks),
                  "spaces2")]

\* The .gitignore part of init.
initGitignore(file) ==
  LET gitignoreContent == IF file.exists THEN file.text ELSE <<>>
  IN  IF ~Includes(gitignoreContent, SeenJsonEntry)
      THEN [exists |-> TRUE, text |-> file.text \o IgnoreComment \o IgnoreLine]
      ELSE file

\* What the init command leaves alone.
processVars ==
  <<notices, seenFile, now, pc, number, autoExecute, stdinIsTTY, devTty,
    repoRoot, toShow, ni, cmds, ci, ttyStream, inputStream, displayed,
    events, lastAnswer, anyFailed, cancelled, caught, seenAtStart,
    firstRun, prevShown, runs, creates, ttyFds, wrote>>

\* The init command: an error of getRepoRoot or of readJsonSync ends it
\* before anything is written.
initAction ==
  /\ pc \in {"idle", "done"}
  /\ LET r == initPackageJson(packageJson, lockFiles)
     IN  IF getRepoRoot(cwd, markers) = -1 \/ r.threw
         THEN UNCHANGED <<packageJson, gitignore>>
         ELSE /\ packageJson' = r.pkg
              /\ gitignore' = initGitignore(gitignore)
  /\ initLog' = Append(initLog, <<packageJson', gitignore'>>)
  /\ UNCHANGED <<processVars, env, lockFiles, cliNumber, others>>

\* The postinstall scripts a repository may have: none, empty, its own,
\* and the noticer command of any package manager alone, behind or before
\* another command.
Postinstalls ==
  {<<>>, OtherScript}
    \cup UNION { { pm \o NoticerShow,
                   OtherScript \o AndAnd \o pm \o NoticerShow,
                   pm \o NoticerShow \o AndAnd \o OtherScript } :
                 pm \in {Bun, Pnpm, Yarn, Npm} }

PackageJsons ==
  { NoPackageJson,
    [NoPackageJson EXCEPT !.exists = TRUE],
    PackageJson(FALSE, <<>>, "original") }
    \cup { PackageJson(TRUE, p, "original") : p \in Postinstalls }

Gitignores ==
  { NoGitignore }
    \cup { [exists |-> TRUE, text |-> t] :
             t \in { <<>>, OtherIgnore, SeenJsonEntry,
                     OtherIgnore \o SeenJsonEntry,
                     OtherIgnore \o <<"#">> \o SeenJsonEntry \o OtherIgnore } }

\* A repository root with any lock files, package.json and .gitignore.
InitInit ==
  /\ notices = <<>>
  /\ seenFile = AbsentFile
  /\ now = 0
  /\ cwd = MaxDepth
  /\ markers = {1}
  /\ lockFiles \in SUBSET LockFileNames
  /\ packageJson \in PackageJsons
  /\ gitignore \in Gitignores
  /\ initLog = << <<packageJson, gitignore>> >>
  /\ ProcessStart

NextInit == Len(initLog) <= MaxInits /\ initAction

SpecInit == InitInit /\ [][NextInit]_vars

TypeOK ==
  /\ pc \in {"idle", "printNotice", "command", "prompting", "done", "typing"}
  /\ ni \in 0..(Len(toShow) + 1)
  /\ ci \in 0..(Len(cmds) + 1)
  /\ caught \in {"none", "norepo", "seen", "print"}
  /\ ttyFds \in 0..1
  /\ wrote \in BOOLEAN
  /\ lastAnswer \in Answers \cup {"-"}
  /\ inputStream \in {"tty", "stdin", "none"}
  /\ runs \in 0..MaxRuns
  /\ creates \in 0..MaxCreates

\* ---------------------------------------------------------------- claims
Ids(list) == {list[i].id : i \in 1..Len(list)}
IdSeq(list) == [i \in 1..Len(list) |-> list[i].id]
StoreIds == Ids(notices)
DisplayedIds == {displayed[i] : i \in 1..Len(displayed)}
NoticeOf(id) == CHOOSE n \in {notices[i] : i \in 1..Len(notices)} : n.id = id

\* The persisted SeenMap maps id to true.
SeenTrue(file, id) ==
  file.exists /\ file.parses /\ id \in DOMAIN file.map /\ file.map[id]

Running == pc \in {"printNotice", "command", "prompting"}
\* A run on the store has returned.
ShowDone == pc = "done" /\ repoRoot # -1

OfType(log, type) == SelectSeq(log, LAMBDA e : e.type = type)
CmdsOf(log) == [i \in 1..Len(log) |-> log[i].cmd]

\* C1: a first run (no seen.json) of show without a count on a store of
\* N >= 1 notices prints exactly one notice, one of the latest date, and
\* leaves every one of the N ids mapped to true in seen.json.
C1_FirstRunShowsLatest ==
  (ShowDone /\ firstRun /\ number = 0 /\ Len(notices) >= 1) =>
    /\ Len(displayed) = 1
    /\ displayed[1] \in StoreIds
    /\ \A i \in 1..Len(notices) : notices[i].date <= NoticeOf(displayed[1]).date
    /\ \A id \in StoreIds : SeenTrue(seenFile, id)

C1_Witness ==
  /\ ShowDone /\ firstRun /\ number = 0
  /\ Len(notices) >= 2
  /\ Len(displayed) = 1
  /\ \E i \in 1..Len(notices) : notices[i].date < NoticeOf(displayed[1]).date
  /\ \A id \in StoreIds : SeenTrue(seenFile, id)

\* C2: when a show invocation has returned, seen.json maps the id of every
\* notice it printed to true.
C2_DisplayedAreSeen ==
  ShowDone => \A id \in DisplayedIds : SeenTrue(seenFile, id)

\* C3: a show without a count that directly follows a show without a
\* count on the same store prints nothing and leaves seen.json as it was.
C3_SecondShowIsSilent ==
  (pc = "done" /\ number = 0 /\ prevShown >= 0) =>
    /\ displayed = <<>>
    /\ seenFile = seenAtStart

C3_Witness ==
  /\ ShowDone /\ number = 0 /\ prevShown >= 1
  /\ displayed = <<>>
  /\ seenFile = seenAtStart

\* C4: the notices getUnseenNotices hands to printNotices are the stored
\* notices whose id has no true entry in seen.json, each once; ids of
\* seen.json that name no stored notice change nothing.
C4_UnseenExact ==
  /\ (Running /\ number = 0) =>
       /\ Ids(toShow) = {id \in StoreIds : ~SeenTrue(seenFile, id)}
       /\ Cardinality(Ids(toShow)) = Len(toShow)
       /\ \A i \in 1..Len(toShow) : toShow[i] = NoticeOf(toShow[i].id)
  /\ (ShowDone /\ number = 0 /\ caught = "none" /\ displayed = <<>>) =>
       \A id \in StoreIds : SeenTrue(seenAtStart, id)

C4_Witness ==
  /\ Running /\ number = 0
  /\ seenFile.parses /\ OrphanId \in DOMAIN seenFile.map
  /\ Len(toShow) = 1 /\ Len(notices) = 2
  /\ \E id \in StoreIds : SeenTrue(seenFile, id)

\* C5: run with number = K >= 1 prints the min(K, N) notices of the latest
\* dates, seen or not, and when it has returned each of them is mapped to
\* true in seen.json.
C5_CountShowsAndMarks ==
  (ShowDone /\ number >= 1) =>
    /\ Len(displayed) = (IF number < Len(notices) THEN number ELSE Len(notices))
    /\ Cardinality(DisplayedIds) = Len(displayed)
    /\ DisplayedIds \subseteq StoreIds
    /\ \A id \in DisplayedIds : \A other \in StoreIds \ DisplayedIds :
         NoticeOf(other).date <= NoticeOf(id).date
    /\ \A id \in DisplayedIds : SeenTrue(seenFile, id)

\* C6 as stated: whatever seen.json was before (absent too), a show with
\* a count leaves the seen-state of every notice it did not print as it was.
C6_FrameAnyPrior ==
  (ShowDone /\ number >= 1) =>
    \A id \in StoreIds \ DisplayedIds :
      SeenTrue(seenFile, id) = SeenTrue(seenAtStart, id)

\* C6 amended: when seen.json was present, a show with a count leaves the
\* seen-state of every notice it did not print as it was; when seen.json
\* was absent, first-run reconciliation also ran, and every notice is seen.
C6_FramePresent ==
  (ShowDone /\ number >= 1) =>
    IF seenAtStart.exists
    THEN \A id \in (StoreIds \cup {OrphanId}) \ DisplayedIds :
           SeenTrue(seenFile, id) = SeenTrue(seenAtStart, id)
    ELSE \A id \in StoreIds : SeenTrue(seenFile, id)

C6_Witness ==
  /\ ShowDone /\ number = 1
  /\ seenAtStart.exists /\ seenAtStart.parses
  /\ Len(displayed) = 1 /\ Len(notices) >= 2
  /\ ~SeenTrue(seenAtStart, displayed[1])
  /\ SeenTrue(seenFile, displayed[1])
  /\ \E id \in StoreIds \ DisplayedIds : ~SeenTrue(seenFile, id)

\* C7: a step executes a command only in auto-execute mode or when the
\* prompt for that very command was answered yes; any other end of the
\* prompt executes nothing.
C7_ConfirmationGuard ==
  [][ /\ (Len(OfType(events', "executing")) > Len(OfType(events, "executing"))) =>
           \/ autoExecute
           \/ /\ pc = "prompting"
              /\ lastAnswer' = "yes"
              /\ events[Len(events)].type = "prompt"
              /\ events[Len(events)].cmd = events'[Len(events) + 1].cmd
      /\ (lastAnswer' \in {"no", "default", "cancel", "throw"}) =>
           /\ OfType(events', "executing") = OfType(events, "executing")
           /\ events' = Append(events, Event("skipped", cmds[ci], "-"))
    ]_vars

C7_Witness ==
  /\ ~autoExecute /\ pc = "command"
  /\ lastAnswer = "yes"
  /\ Len(events) >= 2
  /\ events[Len(events)].type = "executing"
  /\ \E i \in 1..Len(events) : events[i].type = "skipped"

\* C8: in auto-execute mode no command is prompted for or skipped, the
\* commands resolved so far were executed in extraction order, each with
\* its "Executing:" line, also behind a command that failed.
C8_AutoExecuteAll ==
  (Running /\ autoExecute) =>
    /\ pc # "prompting"
    /\ ~ttyStream
    /\ OfType(events, "prompt") = <<>>
    /\ OfType(events, "skipped") = <<>>
    /\ pc = "command" =>
         CmdsOf(OfType(events, "executing")) = SubSeq(cmds, 1, ci - 1)

C8_Witness ==
  /\ autoExecute /\ pc = "command"
  /\ Len(cmds) = 2 /\ ci = 3
  /\ Len(events) = 3
  /\ events[2].type = "failed"
  /\ events[3].type = "executing"

C10_FailureNonFatal ==
  /\ (Running /\ anyFailed) => caught = "none"
  /\ (ShowDone /\ anyFailed) =>
       /\ caught = "none"
       /\ \A id \in DisplayedIds : SeenTrue(seenFile, id)

\* C11: a cancelled prompt skips its command only: the step that cancels
\* leaves the invocation at the next command of the notice, run has
\* swallowed no error, and when the invocation has returned the notices it
\* printed are mapped to true in seen.json.
C11_CancelSkipsOne ==
  /\ (pc = "command" /\ lastAnswer = "cancel") =>
       /\ events[Len(events)] = Event("skipped", cmds[ci - 1], "-")
       /\ caught = "none"
  /\ (Running /\ cancelled) => caught = "none"
  /\ (ShowDone /\ cancelled) =>
       /\ caught = "none"
       /\ \A id \in DisplayedIds : SeenTrue(seenFile, id)

\* C12: the process holds at most one open /dev/tty descriptor and none
\* outside a batch; it is opened only by the step that starts a batch, the
\* streams of printNotices stay the same from notice to notice, every
\* prompt reads the batch's stream, and the step that ends the batch, by
\* return or by an error, leaves no descriptor open.
C12_TtyInvariant ==
  /\ ttyFds \in 0..1
  /\ ~Running => ttyFds = 0
  /\ Running => (ttyStream <=> ttyFds = 1)
  /\ (Running /\ ttyStream) => inputStream = "tty"
  /\ \A i \in 1..Len(events) :
       events[i].type = "prompt" =>
         /\ events[i].via = inputStream
         /\ ttyStream => events[i].via = "tty"

C12_TtyStep ==
  /\ (Running /\ Running') =>
       /\ ttyFds' = ttyFds
       /\ ttyStream' = ttyStream
       /\ inputStream' = inputStream
  /\ ttyFds' > ttyFds => (~Running /\ Running' /\ ttyFds = 0)
  /\ (Running /\ ~Running') => ttyFds' = 0

C12_TerminalLifecycle == [](C12_TtyInvariant) /\ [][C12_TtyStep]_vars

\* The second notice of a batch is about to throw in printNotice while
\* the /dev/tty stream opened for the batch is still open.
C12_Witness ==
  /\ pc = "printNotice" /\ ni = 2 /\ Len(toShow) = 2
  /\ ~toShow[2].author
  /\ ttyStream /\ ttyFds = 1
  /\ displayed = <<toShow[1].id>>

\* The text of a content, read off its characters: where its newlines
\* are, its k-th line, a text without the blanks around it.
NewlinesOf(c) == {i \in 1..Len(c) : c[i] = "\n"}
LineCount(c) == Cardinality(NewlinesOf(c)) + 1
NthNewline(c, k) ==
  CHOOSE p \in NewlinesOf(c) :
    Cardinality({q \in NewlinesOf(c) : q <= p}) = k
LineText(c, k) ==
  SubSeq(c, IF k = 1 THEN 1 ELSE NthNewline(c, k - 1) + 1,
            IF k = LineCount(c) THEN Len(c) ELSE NthNewline(c, k) - 1)
Stripped(t) ==
  LET ink == {i \in 1..Len(t) : t[i] \notin WS}
  IN  IF ink = {} THEN <<>>
      ELSE SubSeq(t, CHOOSE i \in ink : \A j \in ink : i <= j,
                     CHOOSE i \in ink : \A j \in ink : j <= i)
Remainder(l) == Stripped(SubSeq(Stripped(l), 3, Len(Stripped(l))))
IsCommandLine(l) ==
  /\ Len(Stripped(l)) >= 2
  /\ SubSeq(Stripped(l), 1, 2) = <<"!", ">">>
  /\ Remainder(l) # <<>>
CommandLines(c) == {k \in 1..LineCount(c) : IsCommandLine(LineText(c, k))}

\* C13: the commands printNotice extracts from a content are, in line
\* order, the trimmed remainders of exactly the lines whose trimmed text
\* starts with '!>' and has a non-empty remainder; a line that starts with
\* '!' without '>' behind it, or has '!>' only behind other text, gives none.
C13_ExtractCommands ==
  pc = "command" =>
    LET c == toShow[ni].content
        M == CommandLines(c)
    IN  /\ Len(cmds) = Cardinality(M)
        /\ \A j \in 1..Len(cmds) :
             \E k \in M :
               /\ Cardinality({x \in M : x <= k}) = j
               /\ cmds[j] = Remainder(LineText(c, k))
        /\ \A k \in 1..LineCount(c) :
             LET t == Stripped(LineText(c, k))
             IN  (t = <<>> \/ t[1] # "!" \/ Len(t) < 2 \/ t[2] # ">")
                   => k \notin M

\* Two different commands were extracted from an indented marker line
\* and the marker line behind it.
C13_Witness ==
  /\ pc = "command"
  /\ Len(cmds) = 2 /\ cmds[1] # cmds[2]
  /\ toShow[ni].content[1] = " "
  /\ LineCount(toShow[ni].content) = 2

\* C14: in a behaviour that starts without seen.json, a show invocation
\* behind the first one marks a notice seen only when it has printed it.
C14_ReconciliationOnce ==
  (ShowDone /\ runs >= 2) =>
    \A id \in StoreIds :
      (SeenTrue(seenFile, id) /\ ~SeenTrue(seenAtStart, id))
        => id \in DisplayedIds

\* C15: a show on a store without notices that finds no seen.json prints
\* no notice, writes no line to the terminal, swallows no error, and
\* leaves seen.json absent or without an entry.
C15_FirstRunEmptyStore ==
  (ShowDone /\ firstRun /\ Len(notices) = 0) =>
    /\ displayed = <<>>
    /\ ~wrote
    /\ caught = "none"
    /\ (~seenFile.exists \/ (seenFile.parses /\ DOMAIN seenFile.map = {}))

C15_Witness ==
  /\ ShowDone /\ firstRun /\ Len(notices) = 0
  /\ number >= 1
  /\ displayed = <<>> /\ ~wrote
  /\ ~seenFile.exists

\* C16: no step removes an entry of seen.json or changes the value of
\* one: an id mapped to true stays mapped to true, whether a notice file
\* of that id exists or not, and a seen.json never stops to exist or parse.
C16_SeenMapAppendOnly ==
  [][ (seenFile.exists /\ seenFile.parses) =>
        /\ seenFile'.exists /\ seenFile'.parses
        /\ DOMAIN seenFile.map \subseteq DOMAIN seenFile'.map
        /\ \A id \in DOMAIN seenFile.map :
             seenFile'.map[id] = seenFile.map[id]
        /\ \A id \in DOMAIN seenFile'.map : seenFile'.map[id] = TRUE
    ]_vars

\* A show has rewritten a seen.json that held the id of a notice whose
\* file is gone.
C16_Witness ==
  /\ ShowDone
  /\ SeenTrue(seenAtStart, OrphanId)
  /\ seenFile # seenAtStart
  /\ SeenTrue(seenFile, OrphanId)
  /\ OrphanId \notin StoreIds

\* C17: a show that finds a seen.json that does not parse, with or without
\* a count, never gets to print a notice or resolve a command, writes
\* nothing to the terminal, and leaves seen.json as it was.
C17_CorruptIsNoOp ==
  (seenAtStart.exists /\ ~seenAtStart.parses) =>
    /\ ~Running
    /\ pc = "done" =>
         /\ displayed = <<>>
         /\ ~wrote
         /\ ~anyFailed
         /\ seenFile = seenAtStart

\* C18: run's getRepoRoot throws exactly when no directory from the
\* current one up to '/' holds .git or .jj, and then run has returned
\* without printing or writing anything; otherwise it returns the deepest
\* such directory.
C18_RepoRoot ==
  runs >= 1 =>
    LET holding == {d \in 0..cwd : d \in markers}
    IN  IF holding = {}
        THEN /\ repoRoot = -1
             /\ pc = "done"
             /\ caught = "norepo"
             /\ displayed = <<>>
             /\ ~wrote
             /\ seenFile = seenAtStart
        ELSE /\ repoRoot \in holding
             /\ \A d \in holding : d <= repoRoot

\* C19: a create step adds one notice file with a new id behind the
\* files of the store and leaves those as they were.
C19_CreateAppends ==
  [][ creates' = creates + 1 =>
        /\ Len(notices') = Len(notices) + 1
        /\ SubSeq(notices', 1, Len(notices)) = notices
        /\ notices'[Len(notices')].id \notin StoreIds
    ]_vars

\* How often a text holds a part.
Occurrences(text, part) ==
  Cardinality({i \in 1..(Len(text) - Len(part) + 1) :
                 SubSeq(text, i, i + Len(part) - 1) = part})

\* C20: a second init leaves package.json and .gitignore as the first
\* left them; no init adds the noticer command or the seen.json entry to
\* a file that holds it, the first adds each once at most, and a
\* postinstall script that was there before is the start of the new one.
C20_InitIdempotent ==
  LET before == initLog[1]
      command == noticerCommand(lockFiles)
  IN  /\ Len(initLog) >= 3 => initLog[3] = initLog[2]
      /\ \A k \in 2..Len(initLog) :
           LET pkg == initLog[k][1]
               ignore == initLog[k][2]
           IN  /\ Occurrences(pkg.postinstall, command)
                    <= Occurrences(before[1].postinstall, command) + 1
               /\ Occurrences(before[1].postinstall, command) >= 1
                    => pkg = before[1]
               /\ Occurrences(ignore.text, SeenJsonEntry)
                    <= Occurrences(before[2].text, SeenJsonEntry) + 1
               /\ Occurrences(before[2].text, SeenJsonEntry) >= 1
                    => ignore = before[2]
               /\ before[1].has =>
                    /\ Len(pkg.postinstall) >= Len(before[1].postinstall)
                    /\ SubSeq(pkg.postinstall, 1, Len(before[1].postinstall))
                         = before[1].postinstall

\* Two inits in a repository whose postinstall script held the command
\* of another package manager and whose .gitignore lacked the entry: the
\* first changed both files, the second none.
C20_Witness ==
  /\ Len(initLog) = 3
  /\ initLog[1][1].has /\ initLog[1][1].postinstall # <<>>
  /\ Includes(initLog[1][1].postinstall, NoticerShow)
  /\ initLog[2][1] # initLog[1][1]
  /\ initLog[2][2] # initLog[1][2]
  /\ initLog[3] = initLog[2]

\* ------------------------------------------------ markNoticeAsSeen alone
\* seen.json is whatever JSON object the file holds: the maps of some of
\* the ids 0..n to true or false.
SeenFilesAnyValue(n) ==
  {AbsentFile, CorruptFile}
    \cup UNION { { FileOf(m) : m \in [S -> BOOLEAN] } : S \in SUBSET (0..n) }

InitMark ==
  /\ notices = <<>>
  /\ seenFile \in SeenFilesAnyValue(MaxNotices)
  /\ now = 0
  /\ cwd = MaxDepth
  /\ markers = {1}
  /\ lockFiles = {}
  /\ packageJson = NoPackageJson
  /\ gitignore = NoGitignore
  /\ initLog = <<>>
  /\ ProcessStart

\* One call markNoticeAsSeen(repoRoot, id) from outside run; caught tells
\* whether it threw.
markNoticeAsSeenCall(id) ==
  /\ pc = "idle"
  /\ LET r == markNoticeAsSeen(seenFile, id)
     IN  /\ seenFile' = r.file
         /\ caught' = IF r.threw THEN "seen" ELSE "none"
  /\ markCalls' = Append(markCalls, id)
  /\ UNCHANGED <<notices, now, pc, number, autoExecute, stdinIsTTY, devTty,
                 repoRoot, toShow, ni, cmds, ci, ttyStream, inputStream,
                 displayed, events, lastAnswer, anyFailed, cancelled,
                 seenAtStart, firstRun, prevShown, runs, creates, env,
                 ttyFds, wrote, initFiles, cliNumber, procs, killed>>

NextMark ==
  \E id \in 0..MaxNotices :
    Len(markCalls) < MaxMarks /\ markNoticeAsSeenCall(id)

SpecMark == InitMark /\ [][NextMark]_vars

\* C21: a call markNoticeAsSeen(id) that returns leaves a seen.json that
\* maps id to true, has the entries of before and id and no other, and has
\* every entry but that of id as it was; a call that directly follows a
\* call with the same id leaves seen.json as it was.  A call on a seen.json
\* that does not parse throws and writes nothing.
C21_MarkIdempotentLocal ==
  [][ Len(markCalls') = Len(markCalls) + 1 =>
        LET id == markCalls'[Len(markCalls')]
        IN  IF seenFile.exists /\ ~seenFile.parses
            THEN seenFile' = seenFile /\ caught' = "seen"
            ELSE /\ caught' = "none"
                 /\ SeenTrue(seenFile', id)
                 /\ DOMAIN seenFile'.map = (DOMAIN seenFile.map) \cup {id}
                 /\ \A i \in (DOMAIN seenFile.map) \ {id} :
                      seenFile'.map[i] = seenFile.map[i]
                 /\ (markCalls # <<>> /\ markCalls[Len(markCalls)] = id)
                      => seenFile' = seenFile
    ]_vars

\* Two calls with the same id in a row on a seen.json that held the id
\* as false beside an entry of another id that is false.
C21_Witness ==
  /\ Len(markCalls) = 3
  /\ markCalls[2] = markCalls[3] /\ markCalls[1] # markCalls[2]
  /\ SeenTrue(seenFile, markCalls[3])
  /\ SeenTrue(seenFile, markCalls[1])
  /\ \E i \in DOMAIN seenFile.map : ~seenFile.map[i]

\* The commands of the notice being printed that are resolved (executed
\* or skipped), that were started, and that are started and not resolved.
ResolvedCount(log) ==
  Len(OfType(log, "executing")) + Len(OfType(log, "skipped"))
StartedCount(log) ==
  IF OfType(log, "prompt") # <<>> THEN Len(OfType(log, "prompt"))
  ELSE ResolvedCount(log)
PendingCount(log) == StartedCount(log) - ResolvedCount(log)

\* At most one command is awaiting its answer or running.
C22_OnePending ==
  /\ PendingCount(events) \in {0, 1}
  /\ PendingCount(events) = 1 <=> pc = "prompting"

\* A command is started when the commands before it, and no other, are
\* resolved; the loop leaves a notice when each of its commands is
\* resolved; a notice is printed when nothing of the notice before is
\* left, in the order of the batch.
C22_SequentialStep ==
  /\ StartedCount(events') > StartedCount(events) =>
       /\ PendingCount(events) = 0
       /\ StartedCount(events') = StartedCount(events) + 1
       /\ events'[Len(events) + 1].cmd = cmds[ResolvedCount(events) + 1]
  /\ (Running /\ ni' = ni + 1) =>
       /\ PendingCount(events) = 0
       /\ ResolvedCount(events) = Len(cmds)
       /\ cmds = extractCommands(toShow[ni].content)
       /\ Len(displayed) = ni
  /\ Len(displayed') = Len(displayed) + 1 =>
       /\ events = <<>> /\ cmds = <<>>
       /\ ni = Len(displayed) + 1
       /\ displayed'[ni] = toShow[ni].id

\* C22: within a show invocation a command is prompted for or executed
\* only when every earlier command of the notice is resolved, a notice is
\* printed only when every command of the notice before it is resolved,
\* and never are two commands awaiting an answer or running.
C22_StrictlySequential == [](C22_OnePending) /\ [][C22_SequentialStep]_vars

\* The second command of the second notice of a batch awaits its answer.
C22_Witness ==
  /\ pc = "prompting"
  /\ Len(displayed) = 2
  /\ Len(cmds) = 2 /\ ci = 2
  /\ ResolvedCount(events) = 1
  /\ PendingCount(events) = 1

Undefined == [type |-> "undefined"]
NumberValue(k) == [type |-> "number", value |-> k]
OptionsObject(num, auto) ==
  [type |-> "object", number |-> num, autoExecute |-> auto]

\* The argument the action of show hands to run, k being the value of -n
\* (0: -n not given):
\* options.number ? Number.parseInt(options.number, 10) : undefined
showArgument(k) == IF k # 0 THEN NumberValue(k) ELSE Undefined

\* run's parameter and its destructuring:
\* (options = {}) and const { number, autoExecute = false } = options.
\* A property read on a number gives undefined.
RunOptionsOf(arg) ==
  IF arg.type = "object"
  THEN [number |-> arg.number, autoExecute |-> arg.autoExecute]
  ELSE [number |-> 0, autoExecute |-> FALSE]

\* The action of the show command, called with -n k or without -n.
showAction(k, isTTY, tty) ==
  /\ LET o == RunOptionsOf(showArgument(k))
     IN  RunStart(o.number, o.autoExecute, isTTY, tty)
  /\ cliNumber' = k

\* The steps of a run that the show command started.
RunStepCli ==
  \/ PrintNotice
  \/ SkipNoTerminal
  \/ Prompt
  \/ \E answer \in Answers, exit \in {0, 1} : Answer(answer, exit)
  \/ NextNotice
  \/ Finish

NextCli ==
  \/ \E k \in 0..MaxNumber, isTTY \in BOOLEAN, tty \in BOOLEAN :
       runs < MaxRuns /\ showAction(k, isTTY, tty)
  \/ RunStepCli
  \/ \E content \in ContentPool, t \in {now, now + 1} :
       creates < MaxCreates /\ Create(content, t)

SpecCli == Init /\ [][NextCli]_vars

\* C24: a run that show -n K (K >= 1) started takes the count branch with
\* number = K and, when it has returned without an error, has printed
\* min(K, N) notices whatever seen.json held; a run that show without -n
\* started takes the unseen branch.
C24_CliCountBranch ==
  (cliNumber >= 0 /\ (Running \/ ShowDone)) =>
    /\ number = cliNumber
    /\ (ShowDone /\ cliNumber >= 1 /\ caught = "none") =>
         Len(displayed) =
           (IF cliNumber < Len(notices) THEN cliNumber ELSE Len(notices))

\* The place of a notice file in readdir order.
IndexOf(id) == CHOOSE i \in 1..Len(notices) : notices[i].id = id
\* The first notice in readdir order among those of the latest date.
FirstLatest ==
  CHOOSE i \in 1..Len(notices) :
    /\ \A j \in 1..Len(notices) : notices[j].date <= notices[i].date
    /\ \A j \in 1..(i - 1) : notices[j].date < notices[i].date

NoticeSeqsByAge(n) ==
  { [i \in 1..n |-> [id |-> i, date |-> i, author |-> TRUE,
                     content |-> c[i]]] : c \in [1..n -> ContentPool] }

InitKill ==
  /\ \E n \in 1..(MaxNotices + 1) :
       /\ notices \in NoticeSeqsByAge(n)
       /\ seenFile \in {AbsentFile, CorruptFile, FileOf(EmptyMap),
                         FileOf([i \in {n} |-> TRUE])}
       /\ now = n
  /\ cwd = MaxDepth
  /\ markers = {1}
  /\ lockFiles = {}
  /\ packageJson = NoPackageJson
  /\ gitignore = NoGitignore
  /\ initLog = <<>>
  /\ ProcessStart

\* The process is gone: its locals and its descriptors with it.
ProcessGone ==
  /\ pc' = "idle"
  /\ number' = 0
  /\ autoExecute' = FALSE
  /\ stdinIsTTY' = FALSE
  /\ devTty' = FALSE
  /\ toShow' = <<>>
  /\ ni' = 0
  /\ cmds' = <<>>
  /\ ci' = 0
  /\ ttyStream' = FALSE
  /\ inputStream' = "none"
  /\ displayed' = <<>>
  /\ events' = <<>>
  /\ lastAnswer' = "-"
  /\ anyFailed' = FALSE
  /\ cancelled' = FALSE
  /\ caught' = "none"
  /\ seenAtStart' = seenFile'
  /\ firstRun' = FALSE
  /\ prevShown' = -1
  /\ ttyFds' = 0
  /\ wrote' = FALSE

\* The process is killed between the first line of printNotices' loop
\* and the end of the loop: nothing of run behind printNotices happens.
Kill ==
  /\ Running
  /\ killed' = [at |-> "printNotices", run |-> runs, number |-> number,
                ids |-> displayed, marked |-> 0, older |-> 0]
  /\ UNCHANGED <<notices, seenFile, now, repoRoot, runs, creates, env,
                 initFiles, cliNumber, markCalls, procs>>
  /\ ProcessGone

\* A run on a repository without seen.json is killed in the loop of
\* handleFirstRun, behind the k-th markNoticeAsSeen call.
KillInFirstRun(k) ==
  /\ pc \in {"idle", "done"}
  /\ getRepoRoot(cwd, markers) # -1
  /\ ~seenFile.exists
  /\ LET older == SliceFrom(getSortedNotices(notices), 1)
     IN  /\ k \in 0..Len(older)
         /\ seenFile' = MarkAll(seenFile, SubSeq(older, 1, k)).file
         /\ killed' = [at |-> "handleFirstRun", run |-> runs + 1,
                       number |-> 0, ids |-> <<>>, marked |-> k,
                       older |-> Len(older)]
  /\ runs' = runs + 1
  /\ repoRoot' = getRepoRoot(cwd, markers)
  /\ ProcessGone
  /\ UNCHANGED <<notices, now, creates, env, initFiles, cliNumber,
                 markCalls, procs>>

NextKill ==
  \/ \E num \in 0..MaxNumber, auto \in BOOLEAN, isTTY \in BOOLEAN,
        tty \in BOOLEAN :
       runs < MaxRuns /\ Run(num, auto, isTTY, tty)
  \/ RunStep
  \/ Kill
  \/ \E k \in 0..MaxNotices : runs < MaxRuns /\ KillInFirstRun(k)

SpecKill == InitKill /\ [][NextKill]_vars

\* A run that was not killed follows the run that was killed.
NextShowAfterKill == killed.at # "-" /\ runs = killed.run + 1 /\ pc # "idle"

C26_BatchStep ==
  (Running /\ (Running' \/ (pc' = "idle" /\ killed' # killed)))
    => seenFile' = seenFile

\* The batch of a show without a count has no true entry; a killed show
\* without a count leaves its notices so, and the next show, if it is one
\* without a count, displays each of them.
C26_UnseenBranch ==
  /\ (Running /\ number = 0) =>
       \A id \in Ids(toShow) : ~SeenTrue(seenFile, id)
  /\ (Running /\ number # 0) =>
       \A id \in Ids(toShow) :
         SeenTrue(seenFile, id) => (SeenTrue(seenAtStart, id) \/ firstRun)
  /\ (pc = "idle" /\ killed.at = "printNotices" /\ killed.number = 0) =>
       \A i \in 1..Len(killed.ids) : ~SeenTrue(seenFile, killed.ids[i])
  /\ (NextShowAfterKill /\ killed.at = "printNotices"
        /\ killed.number = 0 /\ number = 0 /\ ShowDone
        /\ caught = "none") =>
       \A i \in 1..Len(killed.ids) : killed.ids[i] \in DisplayedIds

C27_ReconciliationAllOrNothing ==
  (NextShowAfterKill /\ killed.at = "handleFirstRun"
    /\ 1 <= killed.marked /\ killed.marked < killed.older
    /\ number = 0) =>
    /\ Running => IdSeq(toShow) = <<notices[FirstLatest].id>>
    /\ (ShowDone /\ caught = "none") =>
         displayed = <<notices[FirstLatest].id>>

\* ------------------------------------------- show processes side by side
InitRace ==
  /\ \E n \in 0..1 :
       /\ notices \in NoticeSeqsByAge(n)
       /\ seenFile \in SeenFiles(n)
       /\ now = n
  /\ cwd = MaxDepth
  /\ markers = {1}
  /\ lockFiles = {}
  /\ packageJson = NoPackageJson
  /\ gitignore = NoGitignore
  /\ initLog = <<>>
  /\ ProcessStart

\* What the processes side by side leave alone: the process above.
RaceFrame ==
  UNCHANGED <<notices, now, pc, number, autoExecute, stdinIsTTY, devTty,
              repoRoot, toShow, ni, cmds, ci, ttyStream, inputStream,
              displayed, events, lastAnswer, anyFailed, cancelled, caught,
              seenAtStart, firstRun, prevShown, runs, creates, env, ttyFds,
              wrote, initFiles, cliNumber, markCalls, killed>>

RaceDone(q) == procs[q].pc = "done"

\* A new process calls run: handleFirstRun, the list of the branch, and
\* printNotices, whose batch is on the terminal when the step ends.
RaceStart(num) ==
  /\ pc = "idle"
  /\ getRepoRoot(cwd, markers) # -1
  /\ LET file == handleFirstRun(notices, seenFile)
         unseen == getUnseenNotices(notices, file)
         list == IF num # 0
                 THEN SliceTo(getSortedNotices(notices), num)
                 ELSE unseen.list
     IN  /\ seenFile' = file
         /\ procs' = Append(procs,
              [pc |-> IF list = <<>> THEN "done" ELSE "mark",
               number |-> num,
               list |-> IdSeq(list),
               i |-> 1,
               map |-> EmptyMap,
               marked |-> {},
               alone |-> \A q \in 1..Len(procs) : RaceDone(q)])
  /\ RaceFrame

\* markNoticeAsSeen of process p up to the return of getSeenNotices; an
\* error ends the process in run's catch block.
RaceRead(p) ==
  /\ procs[p].pc = "mark"
  /\ LET r == getSeenNotices(seenFile)
     IN  procs' = [procs EXCEPT ![p].pc = IF r.threw THEN "done" ELSE "write",
                                ![p].map = r.map]
  /\ UNCHANGED seenFile
  /\ RaceFrame

\* The write of process p with the map read again at the write.
RaceWriteMerging(p) ==
  /\ procs[p].pc = "write"
  /\ LET id == procs[p].list[procs[p].i]
         last == procs[p].i = Len(procs[p].list)
     IN  /\ seenFile' = saveSeenNotices(SetSeen(getSeenNotices(seenFile).map, id))
         /\ procs' = [procs EXCEPT ![p].pc = IF last THEN "done" ELSE "mark",
                                    ![p].i = @ + 1,
                                    ![p].map = EmptyMap,
                                    ![p].marked = @ \cup {id}]
  /\ RaceFrame

\* markNoticeAsSeen of process p from the assignment to its return: the
\* map it read, with the id set, is written as the whole file.
RaceWrite(p) ==
  /\ procs[p].pc = "write"
  /\ LET id == procs[p].list[procs[p].i]
         last == procs[p].i = Len(procs[p].list)
     IN  /\ seenFile' = saveSeenNotices(SetSeen(procs[p].map, id))
         /\ procs' = [procs EXCEPT ![p].pc = IF last THEN "done" ELSE "mark",
                                    ![p].i = @ + 1,
                                    ![p].map = EmptyMap,
                                    ![p].marked = @ \cup {id}]
  /\ RaceFrame

NextRace ==
  \/ \E num \in 0..MaxNumber : Len(procs) < MaxProcs /\ RaceStart(num)
  \/ \E p \in 1..Len(procs) : RaceRead(p)
  \/ \E p \in 1..Len(procs) : RaceWrite(p)
  \/ \E t \in {now, now + 1} :
       creates < MaxCreates /\ Create(ContentPlain, t)

SpecRace == InitRace /\ [][NextRace]_vars

\* C28: a write of markNoticeAsSeen leaves seen.json as the map its
\* process read, with the one id set: every entry that another process
\* wrote between that read and this write is gone.  (That a process
\* then displays a notice another process had marked is C28_Witness.)
C28_WholeFileWrite ==
  [][ \A p \in 1..Len(procs) :
        (procs[p].pc = "write" /\ procs'[p].pc # "write") =>
          LET id == procs[p].list[procs[p].i]
          IN  /\ seenFile'.exists /\ seenFile'.parses
              /\ DOMAIN seenFile'.map = (DOMAIN procs[p].map) \cup {id}
              /\ seenFile'.map[id]
              /\ \A j \in (DOMAIN procs[p].map) \ {id} :
                   seenFile'.map[j] = procs[p].map[j]
              /\ \A j \in StoreIds \ {id} :
                   (SeenTrue(seenFile, j) /\ j \notin DOMAIN procs[p].map)
                     => ~SeenTrue(seenFile', j)
    ]_vars

\* Two show processes without a count ran at the same time and are done;
\* an id that one of them wrote as seen has no true entry in seen.json,
\* and a show without a count, started when both were done, has the
\* notice in its batch.
C28_Witness ==
  /\ Len(procs) = 3
  /\ procs[1].number = 0 /\ procs[2].number = 0 /\ procs[3].number = 0
  /\ RaceDone(1) /\ RaceDone(2)
  /\ ~procs[2].alone /\ procs[3].alone
  /\ procs[3].pc = "mark" /\ procs[3].i = 1
  /\ \E id \in StoreIds :
       /\ id \in procs[1].marked \cup procs[2].marked
       /\ ~SeenTrue(seenFile, id)
       /\ \E k \in 1..Len(procs[3].list) : procs[3].list[k] = id

\* ------------------------------------------------ create, interactively
\* The id of the notice that createNoticeInteractive previews.
PreviewId == -1

InitPreview ==
  /\ notices = <<>>
  /\ seenFile = AbsentFile
  /\ now = 0
  /\ cwd = MaxDepth
  /\ markers = {1}
  /\ lockFiles = {}
  /\ packageJson = NoPackageJson
  /\ gitignore = NoGitignore
  /\ initLog = <<>>
  /\ ProcessStart

\* [...lines, state.value].join('\n'): toShow holds the preview notice,
\* its content the characters typed so far, "\n" behind each line that
\* was entered.
Typed == toShow[1].content
\* The line being typed is empty.
LineEmpty == IF Typed = <<>> THEN TRUE ELSE Typed[Len(Typed)] = "\n"

\* What typing leaves alone.
TypingFrame ==
  UNCHANGED <<seenFile, number, autoExecute, devTty, repoRoot, ttyStream,
              inputStream, lastAnswer, anyFailed, cancelled, caught,
              seenAtStart, firstRun, prevShown, runs, env, ttyFds,
              initFiles, cliNumber, others>>

\* The create command without content: createNoticeInteractive up to
\* its first text prompt.
CreateInteractive(isTTY) ==
  /\ pc \in {"idle", "done"}
  /\ getRepoRoot(cwd, markers) # -1
  /\ creates' = creates + 1
  /\ stdinIsTTY' = isTTY
  /\ toShow' = <<[id |-> PreviewId, date |-> now, author |-> TRUE,
                  content |-> <<>>]>>
  /\ ni' = 0
  /\ cmds' = <<>>
  /\ ci' = 0
  /\ events' = <<>>
  /\ displayed' = <<>>
  /\ wrote' = TRUE
  /\ pc' = "typing"
  /\ UNCHANGED <<notices, now>>
  /\ TypingFrame

\* A key is pressed in the text prompt: onState is called with a value
\* that is not empty and calls printNotice(previewNotice), with no
\* repoRoot, no autoExecute and no inputStream.
TypeChar(c) ==
  /\ pc = "typing"
  /\ Len(Typed) < MaxTyped
  /\ toShow' = <<[toShow[1] EXCEPT !.content = Append(@, c)]>>
  /\ ni' = 1
  /\ cmds' = <<>>
  /\ ci' = 0
  /\ events' = <<>>
  /\ pc' = "printNotice"
  /\ UNCHANGED <<notices, now, stdinIsTTY, displayed, wrote, creates>>
  /\ TypingFrame

\* Enter behind a line that is not empty: lines.push(response.line).
EnterLine ==
  /\ pc = "typing"
  /\ ~LineEmpty
  /\ Len(Typed) < MaxTyped
  /\ toShow' = <<[toShow[1] EXCEPT !.content = Append(@, "\n")]>>
  /\ UNCHANGED <<notices, now, pc, stdinIsTTY, ni, cmds, ci, events,
                 displayed, wrote, creates>>
  /\ TypingFrame

\* The printNotice of a preview has returned: the text prompt goes on.
PreviewEnds ==
  /\ pc = "printNotice"
  /\ ni > Len(toShow)
  /\ toShow[1].id = PreviewId
  /\ pc' = "typing"
  /\ ni' = 0
  /\ UNCHANGED <<notices, now, stdinIsTTY, toShow, cmds, ci, events,
                 displayed, wrote, creates>>
  /\ TypingFrame

\* Enter on an empty line ends the loop: without content the process
\* exits, with content createNoticeFile writes lines.join('\n').
EnterEmptyLine(t) ==
  /\ pc = "typing"
  /\ LineEmpty
  /\ t >= 1
  /\ IF Typed = <<>>
     THEN UNCHANGED <<notices, now>>
     ELSE /\ notices' = createNoticeFile(notices,
                           SubSeq(Typed, 1, Len(Typed) - 1), t)
          /\ now' = t
  /\ pc' = "idle"
  /\ toShow' = <<>>
  /\ stdinIsTTY' = FALSE
  /\ UNCHANGED <<ni, cmds, ci, events, displayed, wrote, creates>>
  /\ TypingFrame

NextPreview ==
  \/ \E isTTY \in BOOLEAN : creates < MaxCreates /\ CreateInteractive(isTTY)
  \/ \E c \in Chars : TypeChar(c)
  \/ EnterLine
  \/ \E t \in {now, now + 1} : EnterEmptyLine(t)
  \/ PrintNotice
  \/ SkipNoTerminal
  \/ Prompt
  \/ \E answer \in Answers, exit \in {0, 1} : Answer(answer, exit)
  \/ NextNotice
  \/ PreviewEnds

SpecPreview == InitPreview /\ [][NextPreview]_vars

\* C29: while the preview of interactive create is rendered, whatever
\* was typed, no confirmation prompt is shown and no command is executed.
C29_PreviewDisplayOnly ==
  (toShow # <<>> /\ toShow[1].id = PreviewId) =>
    /\ pc # "prompting"
    /\ OfType(events, "prompt") = <<>>
    /\ OfType(events, "executing") = <<>>

\* ------------------------------------------------------ show makes progress
\* Every prompt is answered or cancelled in the end, every command that
\* was spawned exits (execSync returns), and the event loop runs what is
\* ready: a step of the run that stays possible is taken.
\* extractCommands on the contents of the pool, worked out once.
PoolCommands == [content \in ContentPool |-> extractCommands(content)]

\* PrintNotice on a notice whose content is of the pool.
PrintNoticeOfPool == PrintNoticeWith(PoolCommands[toShow[ni].content])

\* The steps of a run behind the printing of a notice.
CommandOrEndStep ==
  \/ \E exit \in {0, 1} : AutoExecute(exit)
  \/ SkipNoTerminal
  \/ Prompt
  \/ \E answer \in Answers, exit \in {0, 1} : Answer(answer, exit)
  \/ NextNotice
  \/ Finish

SpecLive ==
  /\ Init
  /\ [][Next]_vars
  /\ WF_vars(PrintNoticeOfPool)
  /\ WF_vars(CommandOrEndStep)

\* The commands of the notice being printed that are resolved are the
\* first ci - 1 of its commands, each once and in order.
C30_ExactlyOnce ==
  pc \in {"command", "prompting"} =>
    LET resolved == SelectSeq(events,
                      LAMBDA e : e.type \in {"executing", "skipped"})
    IN  /\ Len(resolved) = ci - 1
        /\ Len(resolved) <= Len(cmds)
        /\ \A k \in 1..Len(resolved) : resolved[k].cmd = cmds[k]

\* The invocation has returned and seen.json maps each notice it
\* displayed to true.
C30_CompletedAndMarked ==
  pc = "done" /\ \A id \in DisplayedIds : SeenTrue(seenFile, id)

\* C30: with every prompt answered or cancelled and every command
\* exiting in the end, a show invocation that prints a batch returns in
\* the end with every notice it displayed marked seen, and each command
\* it extracted is resolved (executed or skipped) once.
C30_Progress == [](C30_ExactlyOnce) /\ (Running ~> C30_CompletedAndMarked)

====
